---- MODULE Spec2Model ----
(***************************************************************************)
(* Model of pandevice.firewall.Firewall: address resolution, the element   *)
(* serializer and the create/delete/apply lifecycle of one Firewall object *)
(* (the endpoint), together with its parent, the Panorama it is delegated  *)
(* to and the device-group listing of the remote store.                    *)
(***************************************************************************)
EXTENDS Integers, Sequences, FiniteSets, TLC

VARIABLES
    serial,          \* self.serial: None or the serial number
    vsys,            \* self._vsys: the tenancy selector
    vsys_name,       \* self.vsys_name: None or a display name
    multi_vsys,      \* self.multi_vsys: None, True or False
    parent,          \* kind of self.parent: None, Panorama, DeviceGroup, HAPair
    children,        \* the Vsys child objects of the endpoint, in order
    parent_children, \* names held in the parent's child collection
    pano_changed,    \* the Panorama's pending-changes flag
    fw_changed,      \* the endpoint's own pending-changes flag
    remote,          \* the device group's stored entry for RemoteSerial
    requests,        \* requests issued by the last call, in order
    call,            \* the last call: operation, outcome, and what it read
    payload,         \* the element built by the last element()/create()
    pre,             \* in-memory state as it was when the last call began
    threads          \* the position of each delete() running in its own thread

vars == <<serial, vsys, vsys_name, multi_vsys, parent, children, parent_children,
          pano_changed, fw_changed, remote, requests, call, payload, pre,
          threads>>

----------------------------------------------------------------------------
(* Bounds *)

\* Tenants are named vsys1 .. vsys<MaxVsys>.
MaxVsys == 2

----------------------------------------------------------------------------
(* Python values *)

None == "<None>"
True == "True"
False == "False"

\* "%s" % v
PyStr(v) == IF v = None THEN "None" ELSE v

\* bool(v) for None / True / False
Truthy(v) == v = True

\* s.startswith(p)
startswith(s, p) == Len(s) >= Len(p) /\ SubSeq(s, 1, Len(p)) = p

VsysNames == {"vsys" \o ToString(i) : i \in 1..MaxVsys}
Selectors == VsysNames \cup {"shared"}
RemoteSerial == "fw-01"
Sibling == "fw-02"
Serials == {None, RemoteSerial}
DisplayNames == {None, "DMZ"}
ParentKinds == {None, "Panorama", "DeviceGroup", "HAPair"}

\* A device.Vsys child object, and a plain string, as attribute values.
VsysObj(n) == [cls |-> "Vsys", name |-> n]
StrVal(s) == [cls |-> "str", name |-> s]

\* Sequences over S without repetition (the ordered child collection).
RECURSIVE Arrangements(_)
Arrangements(S) ==
    IF S = {} THEN {<<>>}
    ELSE {<<>>} \cup UNION {{<<x>> \o t : t \in Arrangements(S \ {x})} : x \in S}

----------------------------------------------------------------------------
(* Class attributes of Firewall *)

XPATH == "/devices"
ROOT == "MGTCONFIG"
ENTRY(name) == "/entry[@name='" \o PyStr(name) \o "']"
VsysEntry(t) == "/vsys/entry[@name='" \o PyStr(t) \o "']"

\* self.name: NAME = "serial"
name == serial

----------------------------------------------------------------------------
(* Ancestry: the tree above the endpoint *)

\* self.panorama(): the Panorama above the endpoint, or PanDeviceNotSet.
panorama == IF parent = None THEN "PanDeviceNotSet" ELSE "Panorama"

\* self.devicegroup(): the nearest DeviceGroup above the endpoint, or None.
devicegroup == IF parent \in {"DeviceGroup", "HAPair"} THEN "DeviceGroup" ELSE None

xpath_device == "/config/devices/entry[@name='localhost.localdomain']"
xpath_mgtconfig == "/config/mgt-config"
devicegroup_xpath == xpath_device \o "/device-group/entry[@name='dg-1']"

\* isinstance(self.parent, panorama.Panorama)
IsPanorama(p) == p = "Panorama"

\* Whether the parent exposes xpath_bypass (HAPair does).
HasBypass(p) == p = "HAPair"

\* HAPair.xpath_bypass(): the address of the HAPair's own parent.
xpath_bypass(p) == devicegroup_xpath

\* parent.xpath() of a parent that is neither None nor a Panorama.
parent_own_xpath(p) ==
    CASE p = "HAPair" -> devicegroup_xpath \o "/ha-pair"
      [] p = "Panorama" -> xpath_device
      [] OTHER -> devicegroup_xpath

----------------------------------------------------------------------------
(* Address resolution *)

xpath_vsys_shared == "/config/shared"

\* Variant: the shared selector is not told apart.
xpath_vsys_of_unshared(v) ==
    "/config/devices/entry[@name='localhost.localdomain']/vsys/entry[@name='"
        \o PyStr(v) \o "']"

\* Variant: the address names the default tenant, not the selector.
xpath_vsys_of_default(v) ==
    IF v = "shared"
    THEN xpath_vsys_shared
    ELSE "/config/devices/entry[@name='localhost.localdomain']/vsys/entry[@name='vsys1']"

\* Firewall.xpath_vsys() of an endpoint whose selector is v.
xpath_vsys_of(v) ==
    IF v = "shared"
    THEN xpath_vsys_shared
    ELSE "/config/devices/entry[@name='localhost.localdomain']/vsys/entry[@name='"
             \o PyStr(v) \o "']"

xpath_vsys == xpath_vsys_of(vsys)

\* self.xpath_root(root) on the endpoint itself.
xpath_root(root) ==
    CASE root = "DEVICE" -> xpath_device
      [] root = "VSYS" -> xpath_vsys
      [] root = "MGTCONFIG" -> xpath_mgtconfig
      [] OTHER -> xpath_vsys

\* self.parent.xpath_root(root) when the parent is the Panorama.
panorama_xpath_root(root) ==
    CASE root = "MGTCONFIG" -> xpath_mgtconfig
      [] OTHER -> xpath_device

\* Variant: the bypass address is tried before the Panorama test.
parent_xpath_of_bypass_first(p, bypass) ==
    IF p = None
    THEN IF vsys = "shared" THEN xpath_root("DEVICE") ELSE xpath_root("VSYS")
    ELSE IF bypass
         THEN xpath_bypass(p)
         ELSE IF IsPanorama(p)
              THEN panorama_xpath_root(ROOT)
              ELSE parent_own_xpath(p)

\* Firewall._parent_xpath() for a parent of kind p; bypass: whether the parent
\* has an xpath_bypass attribute (no AttributeError).
parent_xpath_of(p, bypass) ==
    IF p = None
    THEN IF vsys = "shared" THEN xpath_root("DEVICE") ELSE xpath_root("VSYS")
    ELSE IF IsPanorama(p)
         THEN panorama_xpath_root(ROOT)
         ELSE IF bypass
              THEN xpath_bypass(p)
              ELSE parent_own_xpath(p)

parent_xpath == parent_xpath_of(parent, HasBypass(parent))

\* self.xpath(): parent address, class path and entry selector.
xpath == parent_xpath \o XPATH \o ENTRY(name)

\* self.xpath_short(): the address without the entry selector.
xpath_short == parent_xpath \o XPATH

----------------------------------------------------------------------------
(* Element serializer *)

NoElement(err) == [err |-> err, name |-> None, hasvsys |-> FALSE, entries |-> <<>>]
Entry(n, hasvsys, entries) ==
    [err |-> "none", name |-> n, hasvsys |-> hasvsys, entries |-> entries]

\* self.findall(device.Vsys): the Vsys child objects, in order.
findall_Vsys == children

\* The name attribute given to the entry embedded for Vsys child a_vsys.
all_vsys_attr(a_vsys) == a_vsys

\* Variant: every Vsys child is embedded whatever the selector.
devicegroup_entries_all ==
    [i \in 1..Len(findall_Vsys) |-> all_vsys_attr(findall_Vsys[i])]

\* The entries embedded under a device group with multi_vsys set.
devicegroup_entries ==
    IF startswith(vsys, "vsys")
    THEN <<StrVal(vsys)>>
    ELSE [i \in 1..Len(findall_Vsys) |-> all_vsys_attr(findall_Vsys[i])]

\* The implicit first tenant embedded directly under a Panorama.
implicit_vsys == "vsys1"

\* Firewall.element() past the serial check: the entry and its vsys element.
element_entry ==
    IF panorama = "PanDeviceNotSet"
    THEN NoElement("PanDeviceNotSet")
    ELSE IF parent = panorama /\ serial # None
    THEN IF ~Truthy(multi_vsys)
         THEN Entry(serial, TRUE, <<StrVal(implicit_vsys)>>)
         ELSE Entry(serial, FALSE, <<>>)
    ELSE IF parent = devicegroup /\ Truthy(multi_vsys)
    THEN Entry(serial, TRUE, devicegroup_entries)
    ELSE Entry(serial, FALSE, <<>>)

\* Variant: the serial check is missing.
element_unchecked == element_entry

\* Firewall.element()
element ==
    IF serial = None THEN NoElement("ValueError") ELSE element_entry

\* ET.tostring of the embedded entries; attribute values must be strings.
RECURSIVE entries_str(_)
entries_str(es) ==
    IF es = <<>> THEN ""
    ELSE "<entry name=\"" \o Head(es).name \o "\" />" \o entries_str(Tail(es))

Serializable(e) == \A i \in 1..Len(e.entries) : e.entries[i].cls = "str"

\* ET.tostring(element)
tostring(e) ==
    IF ~e.hasvsys THEN "<entry name=\"" \o e.name \o "\" />"
    ELSE IF e.entries = <<>> THEN "<entry name=\"" \o e.name \o "\"><vsys /></entry>"
    ELSE "<entry name=\"" \o e.name \o "\"><vsys>" \o entries_str(e.entries)
             \o "</vsys></entry>"

\* self.element_str(): the outcome and the text.
element_str ==
    LET e == element IN
    IF e.err # "none" THEN [err |-> e.err, text |-> ""]
    ELSE IF ~Serializable(e) THEN [err |-> "TypeError", text |-> ""]
    ELSE [err |-> "none", text |-> tostring(e)]

\* The names read back from a built element: findall("vsys/entry"), get("name").
entry_names(e) == {e.entries[i] : i \in 1..Len(e.entries)}

\* The element create_vsys builds for the tenancy container.
vsys_element_str ==
    IF vsys_name # None
    THEN "<entry name=\"" \o vsys \o "\"><display-name>" \o vsys_name
             \o "</display-name></entry>"
    ELSE "<entry name=\"" \o vsys \o "\" />"

----------------------------------------------------------------------------
(* Remote store *)

Faults == {"none", "get", "write"}

Request(client, op, xp, body) ==
    [client |-> client, op |-> op, xpath |-> xp, body |-> body]

\* Where the device group keeps the entry of RemoteSerial.
remote_entry_xpath == devicegroup_xpath \o XPATH \o ENTRY(RemoteSerial)

RemoteStates ==
    {[entry |-> e, vsys |-> v] : e \in BOOLEAN, v \in SUBSET VsysNames}

\* The effect of one delete request on the device group's entry.
remote_delete(r, xp) ==
    IF xp = remote_entry_xpath
    THEN [entry |-> FALSE, vsys |-> {}]
    ELSE IF \E t \in VsysNames : xp = remote_entry_xpath \o VsysEntry(t)
    THEN [r EXCEPT !.vsys = {t \in r.vsys : xp # remote_entry_xpath \o VsysEntry(t)}]
    ELSE r

\* The effect of one set request of element e under the device group.
remote_set(r, xp, e) ==
    IF xp = devicegroup_xpath \o XPATH /\ e.name = RemoteSerial
    THEN [entry |-> TRUE,
          vsys |-> r.vsys \cup {n \in VsysNames : StrVal(n) \in entry_names(e)}]
    ELSE r

\* Variant: the listing kept from before the previous call is used.
dg_vsys_of_cached(r) ==
    IF PyStr(serial) = RemoteSerial /\ pre.remote.entry THEN pre.remote.vsys ELSE {}

\* devices_xml.findall("entry[@name='%s']/vsys/entry" % self.serial)
dg_vsys_of(r) ==
    IF PyStr(serial) = RemoteSerial /\ r.entry THEN r.vsys ELSE {}

----------------------------------------------------------------------------
(* Lifecycle: what one call does, as a record *)

\* reqs: the requests issued, in order; outcome: "ok" or the error raised;
\* pano, fw: the flags after the call; removed: remove_by_name was reached;
\* did_read, read: the result of the refresh read; elem: the element built.
Run(reqs, outcome, pano, fw, removed, did_read, read, elem) ==
    [reqs |-> reqs, outcome |-> outcome, pano |-> pano, fw |-> fw,
     removed |-> removed, did_read |-> did_read, read |-> read, elem |-> elem]

Raised(fault, which) == IF fault = which THEN "RemoteFault" ELSE "ok"

\* Firewall.create_vsys()
create_vsys(fault) ==
    IF startswith(vsys, "vsys")
    THEN Run(<<Request("self", "set", xpath_device \o "/vsys", vsys_element_str)>>,
             Raised(fault, "write"), pano_changed, TRUE, FALSE, FALSE, {},
             NoElement("none"))
    ELSE Run(<<>>, "ok", pano_changed, fw_changed, FALSE, FALSE, {}, NoElement("none"))

\* Variant: the element is sent whether or not a serial is set.
create_delegated_unchecked(fault) ==
    Run(<<Request("panorama", "set", xpath_short, tostring(element_entry))>>,
        Raised(fault, "write"), TRUE, fw_changed, FALSE, FALSE, {}, element_entry)

\* Firewall.create(), parent set: flag, serialize, set.
create_delegated(fault) ==
    LET es == element_str IN
    IF es.err # "none"
    THEN Run(<<>>, es.err, TRUE, fw_changed, FALSE, FALSE, {}, element)
    ELSE Run(<<Request("panorama", "set", xpath_short, es.text)>>,
             Raised(fault, "write"), TRUE, fw_changed, FALSE, FALSE, {}, element)

\* Firewall.create()
create(fault) ==
    IF parent = None THEN create_vsys(fault) ELSE create_delegated(fault)

\* Variant: the local delete goes to the Panorama's client and flag.
delete_vsys_delegated(fault) ==
    IF startswith(vsys, "vsys")
    THEN Run(<<Request("panorama", "delete", xpath_device \o VsysEntry(vsys), "")>>,
             Raised(fault, "write"), TRUE, fw_changed, FALSE, FALSE, {},
             NoElement("none"))
    ELSE Run(<<>>, "ok", pano_changed, fw_changed, FALSE, FALSE, {}, NoElement("none"))

\* Firewall.delete_vsys()
delete_vsys(fault) ==
    IF startswith(vsys, "vsys")
    THEN Run(<<Request("self", "delete", xpath_device \o VsysEntry(vsys), "")>>,
             Raised(fault, "write"), pano_changed, TRUE, FALSE, FALSE, {},
             NoElement("none"))
    ELSE Run(<<>>, "ok", pano_changed, fw_changed, FALSE, FALSE, {}, NoElement("none"))

\* The address deleted by an object with selector v when the read shows
\* n >= 1 entries for this serial.
dg_delete_xpath_for(n, v) ==
    IF n = 1 THEN xpath ELSE xpath \o VsysEntry(v)

\* Variant: the whole entry is deleted however many entries the read shows.
dg_delete_xpath_whole(n) == xpath

\* The address this object deletes when the read shows n >= 1 entries.
dg_delete_xpath(n) == dg_delete_xpath_for(n, vsys)

\* Variant: the flag is marked before the listing is looked at.
delete_absent_marked(get) ==
    Run(<<get>>, "ok", TRUE, fw_changed, TRUE, TRUE, {}, NoElement("none"))

\* delete() when the read finds no entry for this serial: nothing is sent.
delete_absent(get) ==
    Run(<<get>>, "ok", pano_changed, fw_changed, TRUE, TRUE, {}, NoElement("none"))

\* Firewall.delete(), parent is the device group and multi_vsys is set.
delete_devicegroup(fault) ==
    LET devices_xpath == devicegroup_xpath \o XPATH
        get == Request("panorama", "get", devices_xpath, "")
        dg_vsys == dg_vsys_of(remote)
    IN  IF fault = "get"
        THEN Run(<<get>>, "RemoteFault", pano_changed, fw_changed, FALSE, FALSE, {},
                 NoElement("none"))
        ELSE IF dg_vsys # {}
        THEN Run(<<get, Request("panorama", "delete",
                                dg_delete_xpath(Cardinality(dg_vsys)), "")>>,
                 Raised(fault, "write"), TRUE, fw_changed, fault # "write", TRUE,
                 dg_vsys, NoElement("none"))
        ELSE delete_absent(get)

\* Variant: the flag is marked only once the delete has returned.
delete_entry_marked_after(fault) ==
    Run(<<Request("panorama", "delete", xpath, "")>>, Raised(fault, "write"),
        IF fault = "write" THEN pano_changed ELSE TRUE, fw_changed,
        fault # "write", FALSE, {}, NoElement("none"))

\* Firewall.delete(), any other parent: delete the whole entry.
delete_entry(fault) ==
    Run(<<Request("panorama", "delete", xpath, "")>>, Raised(fault, "write"),
        TRUE, fw_changed, fault # "write", FALSE, {}, NoElement("none"))

\* Variant: any endpoint below a device group takes the device group branch.
is_devicegroup_case_below == devicegroup # None /\ Truthy(multi_vsys)

\* Whether delete() takes the device group branch.
is_devicegroup_case == parent = devicegroup /\ Truthy(multi_vsys)

\* Firewall.delete()
delete(fault) ==
    IF parent = None THEN delete_vsys(fault)
    ELSE IF is_devicegroup_case THEN delete_devicegroup(fault)
    ELSE delete_entry(fault)

\* parent.remove_by_name(self.name, type(self))
remove_by_name(cs, n) == cs \ {n}

\* The remote store after the requests of a run (a raising request has no effect).
remote_after(r) ==
    IF r.outcome # "ok" \/ r.reqs = <<>> THEN remote
    ELSE LET q == r.reqs[Len(r.reqs)] IN
         IF q.op = "delete" THEN remote_delete(remote, q.xpath)
         ELSE IF q.op = "set" /\ q.client = "panorama"
              THEN remote_set(remote, q.xpath, r.elem)
              ELSE remote

Snapshot ==
    [parent_children |-> parent_children, pano_changed |-> pano_changed,
     fw_changed |-> fw_changed, remote |-> remote]

Called(op, r) ==
    [op |-> op, outcome |-> r.outcome, did_read |-> r.did_read, read |-> r.read,
     result |-> ""]

\* The state change of a call that only computes: its outcome and result.
Compute(op, outcome, result) ==
    /\ requests' = <<>>
    /\ call' = [op |-> op, outcome |-> outcome, did_read |-> FALSE, read |-> {},
                result |-> result]
    /\ payload' = NoElement("none")
    /\ pre' = Snapshot
    /\ UNCHANGED <<serial, vsys, vsys_name, multi_vsys, parent, children,
                   parent_children, pano_changed, fw_changed, remote, threads>>

\* The state change of a lifecycle call with run record r.
Perform(op, r) ==
    /\ requests' = r.reqs
    /\ call' = Called(op, r)
    /\ payload' = r.elem
    /\ pre' = Snapshot
    /\ pano_changed' = r.pano
    /\ fw_changed' = r.fw
    /\ parent_children' =
           IF r.removed THEN remove_by_name(parent_children, name)
           ELSE parent_children
    /\ remote' = remote_after(r)
    /\ UNCHANGED <<serial, vsys, vsys_name, multi_vsys, parent, children, threads>>

----------------------------------------------------------------------------
(* Threads: delete() calls that run concurrently *)

Threads == {"t1", "t2"}

\* pc: the position in delete(); vsys: the selector of the Firewall object the
\* thread calls delete() on; read: dg_vsys, the result of its refresh read.
ThreadAt(pc, v, read) == [pc |-> pc, vsys |-> v, read |-> read]

Idle == ThreadAt("idle", "vsys1", {})

----------------------------------------------------------------------------
(* Actions *)

Create == \E fault \in Faults : Perform("create", create(fault))

Delete == \E fault \in Faults : Perform("delete", delete(fault))

\* Variant: apply() pushes the element like create().
Apply_as_create == \E fault \in Faults : Perform("apply", create(fault))

\* Firewall.apply(): returns at once.
Apply ==
    Perform("apply", Run(<<>>, "ok", pano_changed, fw_changed, FALSE, FALSE, {},
                         NoElement("none")))

\* A direct call of Firewall.element().
Element ==
    LET e == element IN
    Perform("element",
            Run(<<>>, IF e.err = "none" THEN "ok" ELSE e.err, pano_changed,
                fw_changed, FALSE, FALSE, {}, e))

\* Variant: xpath_panorama() falls back to a default address.
XpathPanorama_default == Compute("xpath_panorama", "ok", "/config/panorama")

\* Firewall.xpath_panorama(): always raises.
XpathPanorama == Compute("xpath_panorama", "PanDeviceError", "")

\* A call of Firewall.xpath_vsys().
XpathVsys == Compute("xpath_vsys", "ok", xpath_vsys)

\* A call of Firewall._parent_xpath().
ParentXpath == Compute("_parent_xpath", "ok", parent_xpath)

\* The vsys setter.
SetVsys ==
    \E value \in Selectors :
        /\ vsys' = value
        /\ requests' = <<>>
        /\ call' = [op |-> "set_vsys", outcome |-> "ok", did_read |-> FALSE,
                    read |-> {}, result |-> ""]
        /\ payload' = NoElement("none")
        /\ pre' = Snapshot
        /\ UNCHANGED <<serial, vsys_name, multi_vsys, parent, children,
                       parent_children, pano_changed, fw_changed, remote, threads>>

\* Firewall.refresh_system_info(): serial and multi_vsys from the device.
RefreshSystemInfo ==
    \E fault \in {"none", "op"}, multi \in {"on", "off"} :
        /\ requests' = <<Request("self", "op", "show system info", "")>>
        /\ call' = [op |-> "refresh_system_info",
                    outcome |-> Raised(fault, "op"),
                    did_read |-> FALSE, read |-> {}, result |-> ""]
        /\ payload' = NoElement("none")
        /\ pre' = Snapshot
        /\ IF fault = "op"
           THEN UNCHANGED <<serial, multi_vsys>>
           ELSE /\ serial' = RemoteSerial
                /\ multi_vsys' = IF multi = "on" THEN True ELSE False
        /\ UNCHANGED <<vsys, vsys_name, parent, children, parent_children,
                       pano_changed, fw_changed, remote, threads>>

\* parent.add(self): the endpoint is registered with its parent again.
Add ==
    /\ parent # None
    /\ name \notin parent_children
    /\ parent_children' = parent_children \cup {name}
    /\ requests' = <<>>
    /\ call' = [op |-> "add", outcome |-> "ok", did_read |-> FALSE, read |-> {},
                result |-> ""]
    /\ payload' = NoElement("none")
    /\ pre' = Snapshot
    /\ UNCHANGED <<serial, vsys, vsys_name, multi_vsys, parent, children,
                   pano_changed, fw_changed, remote, threads>>

Init ==
    /\ serial \in Serials
    /\ vsys \in Selectors
    /\ vsys_name \in DisplayNames
    /\ multi_vsys \in {None, True, False}
    /\ parent \in ParentKinds
    /\ children \in {[i \in 1..Len(a) |-> VsysObj(a[i])] : a \in Arrangements(VsysNames)}
    /\ parent_children = IF parent = None THEN {} ELSE {name, Sibling}
    /\ pano_changed = FALSE
    /\ fw_changed = FALSE
    /\ remote \in {r \in RemoteStates : r.vsys # {} => r.entry}
    \* Fields that nothing reads in a given position are held fixed: the display
    \* name under a parent, the device group's store outside a device group.
    /\ parent # None => vsys_name = None
    /\ devicegroup = None => remote = [entry |-> FALSE, vsys |-> {}]
    /\ requests = <<>>
    /\ call = [op |-> "none", outcome |-> "ok", did_read |-> FALSE, read |-> {},
               result |-> ""]
    /\ payload = NoElement("none")
    /\ pre = Snapshot
    /\ threads = [t \in Threads |-> Idle]

Next ==
    \/ Create
    \/ Delete
    \/ Apply
    \/ Element
    \/ XpathPanorama
    \/ XpathVsys
    \/ ParentXpath
    \/ SetVsys
    \/ RefreshSystemInfo
    \/ Add

Spec == Init /\ [][Next]_vars

----------------------------------------------------------------------------
(* Two delete() calls in two threads, step by step.

   Two Firewall objects with the same serial and different selectors are
   children of the same device group, multi_vsys is set on both, and each
   thread calls delete() on one of them.  A step is what delete() does
   between two requests; nothing in delete() keeps the other thread from
   running between its steps. *)

\* Lines 234-237: the refresh read of the device group's listing.
DeleteGet(t) ==
    \E fault \in {"none", "get"} :
        /\ threads[t].pc = "start"
        /\ is_devicegroup_case
        /\ requests' = Append(requests,
                              Request("panorama", "get", devicegroup_xpath \o XPATH, ""))
        /\ threads' = [threads EXCEPT ![t] =
               IF fault = "get"
               THEN ThreadAt("done", @.vsys, {})
               ELSE ThreadAt("read", @.vsys, dg_vsys_of(remote))]
        /\ UNCHANGED <<serial, vsys, vsys_name, multi_vsys, parent, children,
                       parent_children, pano_changed, fw_changed, remote, call,
                       payload, pre>>

\* Lines 238-246: the decision on what was read, the flag and the delete request.
DeleteSend(t) ==
    \E fault \in {"none", "write"} :
        LET dg_vsys == threads[t].read
            target == dg_delete_xpath_for(Cardinality(dg_vsys), threads[t].vsys)
        IN  /\ threads[t].pc = "read"
            /\ IF dg_vsys = {}
               THEN /\ fault = "none"
                    /\ threads' = [threads EXCEPT ![t].pc = "sent"]
                    /\ UNCHANGED <<pano_changed, requests, remote>>
               ELSE /\ pano_changed' = TRUE
                    /\ requests' = Append(requests,
                                          Request("panorama", "delete", target, ""))
                    /\ remote' = IF fault = "write" THEN remote
                                 ELSE remote_delete(remote, target)
                    /\ threads' = [threads EXCEPT ![t].pc =
                                       IF fault = "write" THEN "done" ELSE "sent"]
            /\ UNCHANGED <<serial, vsys, vsys_name, multi_vsys, parent, children,
                           parent_children, fw_changed, call, payload, pre>>

\* Lines 251-252: the object is removed from its parent's children.
DeleteRemove(t) ==
    /\ threads[t].pc = "sent"
    /\ parent_children' = remove_by_name(parent_children, name)
    /\ threads' = [threads EXCEPT ![t].pc = "done"]
    /\ UNCHANGED <<serial, vsys, vsys_name, multi_vsys, parent, children,
                   pano_changed, fw_changed, remote, requests, call, payload, pre>>

ConcInit ==
    /\ serial = RemoteSerial
    /\ parent = "DeviceGroup"
    /\ multi_vsys = True
    /\ vsys_name = None
    /\ children = <<>>
    /\ parent_children = {name, Sibling}
    /\ pano_changed = FALSE
    /\ fw_changed = FALSE
    /\ remote \in {r \in RemoteStates : r.entry /\ r.vsys # {}}
    /\ requests = <<>>
    /\ call = [op |-> "none", outcome |-> "ok", did_read |-> FALSE, read |-> {},
               result |-> ""]
    /\ payload = NoElement("none")
    /\ pre = Snapshot
    /\ vsys \in Selectors
    /\ \E other \in Selectors \ {vsys} :
           threads = [t \in Threads |->
                         ThreadAt("start", IF t = "t1" THEN vsys ELSE other, {})]

ConcNext ==
    \E t \in Threads :
        \/ DeleteGet(t)
        \/ DeleteSend(t)
        \/ DeleteRemove(t)

SpecConc == ConcInit /\ [][ConcNext]_vars

----------------------------------------------------------------------------
(* Properties *)

DeleteRequests == SelectSeq(requests, LAMBDA q : q.op = "delete")
WriteRequests == SelectSeq(requests, LAMBDA q : q.op \in {"set", "delete"})
Issued(op, xp) == \E i \in 1..Len(requests) : requests[i].op = op /\ requests[i].xpath = xp

\* The last call was delete() in the device group branch and its read returned.
DeletedUnderGroup ==
    /\ call.op = "delete"
    /\ parent = devicegroup
    /\ multi_vsys = True
    /\ call.did_read

\* C1: delete() under the device group with multi_vsys set: when the read
\* shows exactly one vsys entry for this serial, exactly one delete request is
\* issued and its address is self.xpath(); when it shows two or more, exactly
\* one delete request is issued, at self.xpath() + "/vsys/entry[@name='<vsys>']",
\* and the whole entry address is not deleted.
C1_GroupDeleteAddress ==
    DeletedUnderGroup =>
        /\ Cardinality(call.read) = 1 =>
               /\ Len(DeleteRequests) = 1
               /\ DeleteRequests[1].xpath = xpath
        /\ Cardinality(call.read) >= 2 =>
               /\ Len(DeleteRequests) = 1
               /\ DeleteRequests[1].xpath
                      = xpath \o "/vsys/entry[@name='" \o vsys \o "']"
               /\ ~Issued("delete", xpath)

C1_Witness ==
    /\ DeletedUnderGroup
    /\ Cardinality(call.read) >= 2
    /\ vsys \in call.read
    /\ call.outcome = "ok"
    /\ Len(DeleteRequests) = 1

\* C2: in every delete() on a parented endpoint, the parent's child collection
\* changes only if a remote delete request was issued and returned without
\* raising; otherwise the collection is as it was before the call.
C2_RemovedOnlyAfterRemoteDelete ==
    (call.op = "delete" /\ parent # None) =>
        \/ Len(DeleteRequests) >= 1 /\ call.outcome = "ok"
        \/ parent_children = pre.parent_children

\* C3: delete() under the device group with multi_vsys set, when the read
\* returns no vsys entry for this serial, completes without raising, issues no
\* delete (or set) request and leaves the Panorama's flag as it was.
C3_AbsentIsNoOp ==
    (DeletedUnderGroup /\ call.read = {}) =>
        /\ call.outcome = "ok"
        /\ WriteRequests = <<>>
        /\ pano_changed = pre.pano_changed

C3_Witness ==
    /\ DeletedUnderGroup
    /\ serial = RemoteSerial
    /\ call.read = {}
    /\ call.outcome = "ok"
    /\ ~pano_changed

\* C4: whenever create() or delete() ends by raising, the parent's child
\* collection and the Panorama's pending-changes flag are as before the call.
C4_FailureAtomicity ==
    (call.op \in {"create", "delete"} /\ call.outcome # "ok") =>
        /\ parent_children = pre.parent_children
        /\ pano_changed = pre.pano_changed

\* C5: element() on an endpoint whose serial is None raises ValueError, for
\* every parent kind, multi_vsys and vsys, and no request has been issued.
C5_ElementNeedsSerial ==
    (call.op = "element" /\ serial = None) =>
        /\ call.outcome = "ValueError"
        /\ payload.err = "ValueError"
        /\ requests = <<>>

C5_Witness ==
    /\ call.op = "element"
    /\ serial = None
    /\ parent = None
    /\ call.outcome = "ValueError"

SetRequests == SelectSeq(requests, LAMBDA q : q.op = "set")

ElementBuilt == call.op = "element" /\ serial # None

\* C7: with the serial set, element() embeds tenancy entries by the first
\* matching rule: directly under the Panorama, the one entry 'vsys1' unless
\* multi_vsys is true (no unknown or false multi_vsys embeds more or fewer),
\* and nothing when it is true; under the device group with multi_vsys true,
\* the one entry named by the selector when it names a tenant, else one entry
\* per Vsys child in order; in every other case no vsys element at all.
C7_EmbeddedEntries ==
    ElementBuilt =>
        IF parent = "Panorama"
        THEN IF multi_vsys = True
             THEN ~payload.hasvsys /\ payload.entries = <<>>
             ELSE payload.hasvsys /\ payload.entries = <<StrVal("vsys1")>>
        ELSE IF parent = "DeviceGroup" /\ multi_vsys = True
        THEN IF startswith(vsys, "vsys")
             THEN payload.hasvsys /\ payload.entries = <<StrVal(vsys)>>
             ELSE /\ payload.hasvsys
                  /\ Len(payload.entries) = Len(children)
                  /\ \A i \in 1..Len(children) :
                         payload.entries[i].name = children[i].name
        ELSE ~payload.hasvsys /\ payload.entries = <<>>

C7_Witness ==
    /\ ElementBuilt
    /\ parent = "DeviceGroup"
    /\ multi_vsys = True
    /\ vsys = "vsys2"
    /\ Len(children) = 2
    /\ payload.entries = <<StrVal("vsys2")>>

\* The tenant names element() is to embed, when it embeds a vsys element.
IntendedNames ==
    IF parent = "Panorama" THEN {"vsys1"}
    ELSE IF startswith(vsys, "vsys") THEN {vsys}
    ELSE {children[i].name : i \in 1..Len(children)}

\* C8: whenever element() embeds a vsys element, the entry names read back
\* from the payload are exactly the tenant names to be embedded (as strings),
\* none added, dropped or duplicated.
C8_RoundTrip ==
    (ElementBuilt /\ payload.err = "none" /\ payload.hasvsys) =>
        /\ entry_names(payload) = {StrVal(n) : n \in IntendedNames}
        /\ Len(payload.entries) = Cardinality(IntendedNames)

\* C9 (as stated): with no parent and vsys = "shared", both _parent_xpath()
\* and xpath_vsys() return exactly "/config/shared".
C9_SharedRoot ==
    (parent = None /\ vsys = "shared") =>
        /\ call.op = "xpath_vsys" => call.result = "/config/shared"
        /\ call.op = "_parent_xpath" => call.result = "/config/shared"

\* C9 (amended): with no parent and vsys = "shared", xpath_vsys() returns
\* exactly "/config/shared", and _parent_xpath() returns the device root
\* xpath_root(Root.DEVICE), which is not "/config/shared".
C9_SharedRootOfXpathVsys ==
    (parent = None /\ vsys = "shared") =>
        /\ call.op = "xpath_vsys" => call.result = "/config/shared"
        /\ call.op = "_parent_xpath" =>
               call.result = "/config/devices/entry[@name='localhost.localdomain']"

C9_Witness ==
    /\ parent = None
    /\ vsys = "shared"
    /\ call.op = "xpath_vsys"
    /\ call.result = "/config/shared"

\* C10: with no parent and a selector t other than "shared", _parent_xpath()
\* and xpath_vsys() return exactly
\* "/config/devices/entry[@name='localhost.localdomain']/vsys/entry[@name='t']";
\* the address is decided by the selector alone, and distinct selectors give
\* distinct addresses.
C10_TenantRoot ==
    (parent = None /\ vsys # "shared"
         /\ call.op \in {"xpath_vsys", "_parent_xpath"}) =>
        /\ call.result
               = "/config/devices/entry[@name='localhost.localdomain']"
                     \o "/vsys/entry[@name='" \o vsys \o "']"
        /\ \A t \in Selectors \ {"shared", vsys} : xpath_vsys_of(t) # call.result

C10_Witness ==
    /\ parent = None
    /\ vsys = "vsys2"
    /\ call.op = "_parent_xpath"
    /\ call.result
           = "/config/devices/entry[@name='localhost.localdomain']/vsys/entry[@name='vsys2']"

----------------------------------------------------------------------------
(* Properties of the local lifecycle, apply() and xpath_panorama() *)

\* C11: create() (delete()) on an endpoint with no parent and a selector that
\* starts with "vsys" issues exactly one set (delete) request, on the
\* endpoint's own client, at its device path + "/vsys" (+ "/vsys/entry[@name=
\* '<vsys>']"), marks the endpoint's own flag, and neither uses the Panorama's
\* client nor marks the Panorama's flag; with the shared selector it issues
\* no request at all.
C11_LocalLifecycle ==
    (call.op \in {"create", "delete"} /\ parent = None) =>
        /\ \A i \in 1..Len(requests) : requests[i].client = "self"
        /\ pano_changed = pre.pano_changed
        /\ IF startswith(vsys, "vsys")
           THEN /\ Len(requests) = 1
                /\ requests[1].op = (IF call.op = "create" THEN "set" ELSE "delete")
                /\ requests[1].xpath =
                       IF call.op = "create"
                       THEN xpath_device \o "/vsys"
                       ELSE xpath_device \o "/vsys/entry[@name='" \o vsys \o "']"
                /\ fw_changed
           ELSE requests = <<>>

C11_Witness ==
    /\ call.op = "delete"
    /\ parent = None
    /\ vsys = "vsys2"
    /\ call.outcome = "ok"
    /\ Len(requests) = 1
    /\ fw_changed

\* C12: apply() is a no-op in every state: the step issues no request, marks
\* no flag and leaves the parent link, the children, vsys, serial and
\* multi_vsys (and the parent's child collection) as they were.
C12_ApplyIsNoOp ==
    [][call'.op = "apply" =>
          /\ requests' = <<>>
          /\ call'.outcome = "ok"
          /\ UNCHANGED <<serial, vsys, vsys_name, multi_vsys, parent, children,
                         parent_children, pano_changed, fw_changed, remote>>]_vars

C12_Witness ==
    /\ call.op = "apply"
    /\ parent = "Panorama"
    /\ serial # None
    /\ name \in parent_children
    /\ ~pano_changed

\* C13: xpath_panorama() on an endpoint (whatever its parent, so also when it
\* is not under a Panorama) raises PanDeviceError and returns no address; no
\* request is issued and no state changes.
C13_XpathPanoramaRaises ==
    call.op = "xpath_panorama" =>
        /\ call.outcome = "PanDeviceError"
        /\ call.result = ""
        /\ requests = <<>>
        /\ Snapshot = pre

C13_Witness ==
    /\ call.op = "xpath_panorama"
    /\ parent = None
    /\ call.outcome = "PanDeviceError"

----------------------------------------------------------------------------
(* Properties of delete() and of the Panorama's flag *)

GetRequests == SelectSeq(requests, LAMBDA q : q.op = "get")

\* C15: when multi_vsys is still None, delete() under a device group
\* refreshes it from the endpoint before branching on it: after the call it
\* is known, and the whole-entry delete was not chosen on an unknown value.
C15_RefreshBeforeDelete ==
    (call.op = "delete" /\ parent = "DeviceGroup") =>
        /\ multi_vsys # None
        /\ ~(multi_vsys = None /\ ~call.did_read /\ Issued("delete", xpath))

\* C16: every create(), delete() and apply() issues at most one get and at
\* most one set or delete, the get first when both occur; a get is issued
\* only by delete() in the device group branch, and there the decision
\* follows the listing that this call's get returned from the store: nothing
\* is sent for no entry, the whole entry is deleted for one, the sub-entry
\* for more.
C16_OneReadThenOneWrite ==
    call.op \in {"create", "delete", "apply"} =>
        /\ Len(GetRequests) <= 1
        /\ Len(WriteRequests) <= 1
        /\ Len(requests) = Len(GetRequests) + Len(WriteRequests)
        /\ (GetRequests # <<>> /\ WriteRequests # <<>>) => requests[1].op = "get"
        /\ GetRequests # <<>> =>
               (call.op = "delete" /\ parent = devicegroup /\ multi_vsys = True)
        /\ call.did_read =>
               /\ Len(GetRequests) = 1
               /\ call.read = IF serial = RemoteSerial /\ pre.remote.entry
                              THEN pre.remote.vsys ELSE {}
               /\ call.read = {} <=> WriteRequests = <<>>
               /\ Cardinality(call.read) = 1 => Issued("delete", xpath)
               /\ Cardinality(call.read) > 1 =>
                      Issued("delete", xpath \o "/vsys/entry[@name='" \o vsys \o "']")

C16_Witness ==
    /\ call.op = "delete"
    /\ call.did_read
    /\ Cardinality(call.read) = 1
    /\ pre.pano_changed
    /\ Len(requests) = 2
    /\ call.outcome = "ok"

\* C17: over any sequence of calls the Panorama's flag, once true, stays true,
\* and whenever a set or delete request has gone through the Panorama's
\* client the flag is true, also when that request raised.
C17_FlagMonotonicAndSetFirst ==
    [][/\ pano_changed => pano_changed'
       /\ \A i \in 1..Len(requests') :
              (requests'[i].client = "panorama"
                   /\ requests'[i].op \in {"set", "delete"}) => pano_changed']_vars

C17_Witness ==
    /\ call.op = "delete"
    /\ call.outcome = "RemoteFault"
    /\ ~pre.pano_changed
    /\ pano_changed
    /\ Len(WriteRequests) = 1

\* C18: delete() on an endpoint that has a parent, outside the case "parent
\* is its device group and multi_vsys is true", issues exactly one request: a
\* delete at self.xpath() through the Panorama's client, with no get before
\* it; when it returns without raising the endpoint is no longer in its
\* parent's child collection.
C18_WholeEntryDelete ==
    (call.op = "delete" /\ parent # None
         /\ ~(parent = devicegroup /\ multi_vsys = True)) =>
        /\ requests = <<Request("panorama", "delete", xpath, "")>>
        /\ call.outcome = "ok" => name \notin parent_children

C18_Witness ==
    /\ call.op = "delete"
    /\ parent = "HAPair"
    /\ multi_vsys = True
    /\ call.outcome = "ok"
    /\ name \notin parent_children
    /\ Len(requests) = 1

\* C20: delete() of an endpoint with selector t under its device group with
\* multi_vsys set removes from the store no vsys entry of the endpoint other
\* than t; when none of the entries read is named t, all of them remain.
C20_OnlyOwnTenantRemoved ==
    (DeletedUnderGroup /\ call.outcome = "ok") =>
        /\ (pre.remote.vsys \ remote.vsys) \subseteq {vsys}
        /\ vsys \notin call.read => call.read \subseteq remote.vsys

----------------------------------------------------------------------------
(* Property of the ancestry rules *)

\* C19: _parent_xpath() applies its rules in a fixed order: with no parent the
\* endpoint's own root; with a Panorama as parent the Panorama's root for the
\* endpoint's ROOT, and neither the parent's bypass address nor its normal
\* address, whether or not the Panorama has an xpath_bypass; for any other
\* parent the bypass address when the parent has one and the parent's normal
\* address exactly when it has none.
C19_AncestryOrder ==
    call.op = "_parent_xpath" =>
        /\ parent = None =>
               /\ call.result = IF vsys = "shared" THEN xpath_device ELSE xpath_vsys
               /\ \A b \in BOOLEAN : parent_xpath_of(None, b) = call.result
        /\ parent = "Panorama" =>
               /\ call.result = "/config/mgt-config"
               /\ call.result # xpath_bypass(parent)
               /\ call.result # parent_own_xpath(parent)
        /\ \A b \in BOOLEAN : parent_xpath_of("Panorama", b) = "/config/mgt-config"
        /\ parent \notin {None, "Panorama"} =>
               /\ HasBypass(parent) => call.result = xpath_bypass(parent)
               /\ ~HasBypass(parent) => call.result = parent_own_xpath(parent)
               /\ parent_xpath_of(parent, TRUE) = xpath_bypass(parent)
               /\ parent_xpath_of(parent, FALSE) = parent_own_xpath(parent)

C19_Witness ==
    /\ call.op = "_parent_xpath"
    /\ parent = "HAPair"
    /\ call.result = devicegroup_xpath

----------------------------------------------------------------------------
(* Property of concurrent delete() calls *)

Finished == \A t \in Threads : threads[t].pc = "done"

\* C14: when two delete() calls for the same serial under the same device
\* group, with different selectors, run concurrently, then after both have
\* completed the device group does not hold an entry for the serial that has
\* no vsys entry left.
C14_NoEmptyEntryAfterBoth ==
    Finished => ~(remote.entry /\ remote.vsys = {})

====
